---------------------------- MODULE Spec2Model ----------------------------
(***************************************************************************)
(* A model of the BO-VEST manual parser (parse_manuals.py, utils.py).      *)
(*                                                                         *)
(* Python str values are TLA+ strings, handled character by character      *)
(* (SubSeq on a string is Python slicing).  Regular expressions are        *)
(* patterns run by a backtracking matcher with Python's priorities         *)
(* (greedy quantifiers, ordered alternatives, first match wins).  Values   *)
(* that reach json.dump are tagged Python values (PyStr, PyInt, PyNone,    *)
(* PyList, PyDict ...), so that a value's type is part of the value.       *)
(***************************************************************************)
EXTENDS Integers, Sequences, FiniteSets, TLC

VARIABLES
    pc,           \* position of the program / of the function under study
    libs,         \* the importable third-party modules of the environment
    PDFLIB,       \* parse_manuals.PDFLIB
    pdfs,         \* main: the PDFs still to process (glob order)
    outdir,       \* main: the output directory, file name -> [src, data]
    done,         \* main: the PDFs processed so far, in order
    pages,        \* parse_manual / find_theme_pages: the page texts
    theme_pages,  \* find_theme_pages: its result
    text,         \* extract_description: its argument
    description,  \* extract_description: its result
    criterion,    \* build_task_group: its criterion argument
    page_texts,   \* build_task_group: its page_texts argument
    task_group,   \* build_task_group: its result
    manual_meta,  \* build_json_structure / parse_manual: the manual's metadata
    themes,       \* build_json_structure / parse_manual: the theme list
    root,         \* build_json_structure / parse_manual: the returned structure
    chunk,        \* extract_task_blocks / detect_criteria: the text chunk
    block_pages,  \* extract_task_blocks: its pages argument
    detected,     \* detect_criteria: its result
    theme         \* extract_task_blocks: its result

vars == <<pc, libs, PDFLIB, pdfs, outdir, done, pages, theme_pages, text,
          description, criterion, page_texts, task_group, manual_meta,
          themes, root, chunk, block_pages, detected, theme>>

-----------------------------------------------------------------------------
(* Python str: characters, classes, methods *)

Char(s, i) == SubSeq(s, i, i)

From(s, i) == SubSeq(s, i, Len(s))

LOWER == "abcdefghijklmnopqrstuvwxyzæøå"

UPPER == "ABCDEFGHIJKLMNOPQRSTUVWXYZÆØÅ"

DIGITS == "0123456789"

Chars(s) == {Char(s, i) : i \in 1..Len(s)}

LowerSet == Chars(LOWER)

UpperSet == Chars(UPPER)

DigitSet == Chars(DIGITS)

\* \s of the re module, within the model's alphabet
WS == {" ", "\t", "\n", "\r", "\f"}

\* \w of the re module, within the model's alphabet
WordSet == LowerSet \cup UpperSet \cup DigitSet \cup {"_"}

UpperOf == [c \in LowerSet |-> Char(UPPER, CHOOSE i \in 1..Len(LOWER) : Char(LOWER, i) = c)]

LowerOf == [c \in UpperSet |-> Char(LOWER, CHOOSE i \in 1..Len(UPPER) : Char(UPPER, i) = c)]

UpperChar(c) == IF c \in LowerSet THEN UpperOf[c] ELSE c

LowerChar(c) == IF c \in UpperSet THEN LowerOf[c] ELSE c

RECURSIVE CatRange(_, _, _)
\* f[lo] \o ... \o f[hi], by halves
CatRange(f, lo, hi) ==
    IF lo > hi THEN ""
    ELSE IF lo = hi THEN f[lo]
    ELSE LET mid == (lo + hi) \div 2
         IN  CatRange(f, lo, mid) \o CatRange(f, mid + 1, hi)

\* s with every character c replaced by f[c] where f is defined
MapStr(f, s) ==
    CatRange([i \in 1..Len(s) |-> IF Char(s, i) \in DOMAIN f THEN f[Char(s, i)] ELSE Char(s, i)],
             1, Len(s))

\* str.upper()
Upper(s) == MapStr(UpperOf, s)

\* str.lower()
Lower(s) == MapStr(LowerOf, s)

\* min(S) and max(S) of a non-empty set of integers
Min(S) == CHOOSE x \in S : \A y \in S : x <= y

Max(S) == CHOOSE x \in S : \A y \in S : x >= y

\* s.startswith(sub, i-1)
StartsAt(s, sub, i) == i + Len(sub) - 1 <= Len(s) /\ SubSeq(s, i, i + Len(sub) - 1) = sub

\* sub in s
Contains(s, sub) == \E i \in 1..(Len(s) - Len(sub) + 1) : StartsAt(s, sub, i)

\* s.find(sub, i-1) as a 1-based position, 0 when absent
FindFrom(s, sub, i) ==
    LET hits == {j \in i..Len(s) : StartsAt(s, sub, j)}
    IN  IF hits = {} THEN 0 ELSE Min(hits)

\* s.find(sub) as a 1-based position, 0 when absent
Find(s, sub) == FindFrom(s, sub, 1)

RECURSIVE SplitFrom(_, _, _)
SplitFrom(s, sep, i) ==
    LET j == FindFrom(s, sep, i)
    IN  IF j = 0 THEN <<From(s, i)>>
        ELSE <<SubSeq(s, i, j - 1)>> \o SplitFrom(s, sep, j + Len(sep))

\* str.split(sep): always at least one part
Split(s, sep) == SplitFrom(s, sep, 1)

RECURSIVE JoinFrom(_, _, _)
JoinFrom(sep, xs, i) ==
    IF i > Len(xs) THEN ""
    ELSE IF i = Len(xs) THEN xs[i]
    ELSE xs[i] \o sep \o JoinFrom(sep, xs, i + 1)

\* sep.join(xs)
Join(sep, xs) == JoinFrom(sep, xs, 1)

\* str.replace(old, new), old not empty
Replace(s, old, new) == Join(new, Split(s, old))

\* str.capitalize()
Capitalize(s) == IF s = "" THEN "" ELSE Upper(Char(s, 1)) \o Lower(From(s, 2))

RECURSIVE IntToStr(_)
\* str(n) of an int
IntToStr(n) ==
    IF n < 0 THEN "-" \o IntToStr(0 - n)
    ELSE IF n < 10 THEN Char(DIGITS, n + 1)
    ELSE IntToStr(n \div 10) \o Char(DIGITS, (n % 10) + 1)

\* str.strip()
Strip(s) ==
    LET ink == {i \in 1..Len(s) : Char(s, i) \notin WS}
    IN  IF ink = {} THEN "" ELSE SubSeq(s, Min(ink), Max(ink))

RECURSIVE SplitLinesFrom(_, _)
SplitLinesFrom(s, i) ==
    IF i > Len(s) THEN <<>>
    ELSE LET breaks == {n \in i..Len(s) : Char(s, n) \in {"\n", "\r", "\f"}}
         IN  IF breaks = {} THEN <<From(s, i)>>
             ELSE LET j == Min(breaks)
                  IN  <<SubSeq(s, i, j - 1)>>
                      \o SplitLinesFrom(s, IF StartsAt(s, "\r\n", j) THEN j + 2 ELSE j + 1)

\* str.splitlines(): no trailing empty line
SplitLines(s) == SplitLinesFrom(s, 1)

-----------------------------------------------------------------------------
(* The re module: patterns and the backtracking matcher.                   *)
(* A pattern is a sequence of elements:                                    *)
(*   [k |-> "lit", s, ic]               the literal s, ic: re.IGNORECASE   *)
(*   [k |-> "cls", set, neg, min, max,  a character class with a quantifier*)
(*          lazy]                       {min,max} (max -1: no upper limit),*)
(*                                      greedy unless lazy                 *)
(*   [k |-> "bol"]                      ^ under re.MULTILINE               *)
(*   [k |-> "eol"]                      $ under re.MULTILINE               *)
(*   [k |-> "wb"]                       \b                                 *)
(*   [k |-> "mark"]                     the start of the capturing group   *)
(*   [k |-> "alt", alts, opt]           (a|b|c), with opt: (a|b|c)?        *)
(*   [k |-> "look", alts]               (?=a|b|c)                          *)

Cls(set, neg, min, max) ==
    [k |-> "cls", set |-> set, neg |-> neg, min |-> min, max |-> max, lazy |-> FALSE]

\* [\s\S]*?: any character, as few as possible
LazyAny == <<[k |-> "cls", set |-> {}, neg |-> TRUE, min |-> 0, max |-> -1, lazy |-> TRUE]>>

One(set) == <<Cls(set, FALSE, 1, 1)>>

Star(set) == <<Cls(set, FALSE, 0, -1)>>

Plus(set) == <<Cls(set, FALSE, 1, -1)>>

Opt(set) == <<Cls(set, FALSE, 0, 1)>>

\* both cases of a character: re.IGNORECASE
BothCases(c) == {c, UpperChar(c), LowerChar(c)}

\* the literal s (re.escape(s)), ic: under re.IGNORECASE
Lit(s, ic) == <<[k |-> "lit", s |-> s, ic |-> ic]>>

\* the literal e.s at position i of s
LitAt(e, s, i) ==
    /\ i + Len(e.s) - 1 <= Len(s)
    /\ LET sub == SubSeq(s, i, i + Len(e.s) - 1)
       IN  IF e.ic THEN Lower(sub) = Lower(e.s) ELSE sub = e.s

InCls(e, c) == IF e.neg THEN c \notin e.set ELSE c \in e.set

\* how many characters of s from position i on are in class e, at most e.max
Run(e, s, i) ==
    LET hi == IF e.max # -1 /\ i + e.max - 1 < Len(s) THEN i + e.max - 1 ELSE Len(s)
        out == {j \in i..hi : ~InCls(e, Char(s, j))}
    IN  IF out = {} THEN (IF hi < i THEN 0 ELSE hi - i + 1) ELSE Min(out) - i

IsWord(s, i) == i >= 1 /\ i <= Len(s) /\ Char(s, i) \in WordSet

NoMatch == <<>>

\* rest: the pairs <<m, what follows m repetitions of a class matches>>.
\* Greedy: the longest repetition after which the rest of the pattern
\* matches; lazy: the shortest.
Repeat(rest, lazy) ==
    LET ok == {r[1] : r \in {r \in rest : r[2] # NoMatch}}
    IN  IF ok = {} THEN NoMatch
        ELSE LET n1 == IF lazy THEN Min(ok) ELSE Max(ok)
             IN  (CHOOSE r \in rest : r[1] = n1)[2]

\* r, or other when r is no match
OrElse(r, other) == IF r # NoMatch THEN r ELSE other

RECURSIVE M(_, _, _, _, _)
RECURSIVE Alt(_, _, _, _, _, _)
RECURSIVE AnyOf(_, _, _, _)

\* The first match, in backtracking order, of elements k.. of pattern p at
\* position i of s: <<g, j>> with j the position after the match and g the
\* position of the group mark (0 without one), or NoMatch.
M(p, k, s, i, g) ==
    IF k > Len(p) THEN <<g, i>>
    ELSE LET e == p[k]
         IN  CASE e.k = "lit" -> IF LitAt(e, s, i)
                                 THEN M(p, k + 1, s, i + Len(e.s), g) ELSE NoMatch
               [] e.k = "cls" ->
                    Repeat({<<m, M(p, k + 1, s, i + m, g)>> : m \in e.min..Run(e, s, i)}, e.lazy)
               [] e.k = "bol" -> IF i = 1 \/ Char(s, i - 1) = "\n"
                                 THEN M(p, k + 1, s, i, g) ELSE NoMatch
               [] e.k = "eol" -> IF i = Len(s) + 1 \/ Char(s, i) = "\n"
                                 THEN M(p, k + 1, s, i, g) ELSE NoMatch
               [] e.k = "wb" -> IF IsWord(s, i - 1) # IsWord(s, i)
                                THEN M(p, k + 1, s, i, g) ELSE NoMatch
               [] e.k = "mark" -> M(p, k + 1, s, i, i)
               [] e.k = "alt" -> Alt(p, k, s, i, g, 1)
               [] e.k = "look" -> IF AnyOf(e.alts, s, i, 1)
                                  THEN M(p, k + 1, s, i, g) ELSE NoMatch

\* alternatives in order, each followed by the rest of the pattern; an
\* optional group is tried without its content last
Alt(p, k, s, i, g, a) ==
    IF a > Len(p[k].alts)
    THEN (IF p[k].opt THEN M(p, k + 1, s, i, g) ELSE NoMatch)
    ELSE OrElse(M(p[k].alts[a] \o SubSeq(p, k + 1, Len(p)), 1, s, i, g),
                Alt(p, k, s, i, g, a + 1))

AnyOf(alts, s, i, a) ==
    a <= Len(alts) /\ (M(alts[a], 1, s, i, 0) # NoMatch \/ AnyOf(alts, s, i, a + 1))

\* found: the pairs <<n, match of the pattern at position n>>
Leftmost(found) ==
    IF found = {} THEN NoMatch
    ELSE LET j == Min({r[1] : r \in found})
             r == CHOOSE r \in found : r[1] = j
         IN  <<j, r[2][1], r[2][2]>>

\* pattern.search(s, i-1): <<start, group start, end>> of the leftmost match, or NoMatch
SearchFrom(p, s, i) ==
    Leftmost({r \in {<<n, M(p, 1, s, n, 0)>> : n \in i..(Len(s) + 1)} : r[2] # NoMatch})

\* re.search(p, s) is not None
Search(p, s) == SearchFrom(p, s, 1) # NoMatch

\* re.fullmatch(p, s) is not None, for a pattern p of one quantified class
FullMatch(p, s) == M(p, 1, s, 1, 0) # NoMatch /\ M(p, 1, s, 1, 0)[2] = Len(s) + 1

RECURSIVE SubFrom(_, _, _, _)
RECURSIVE SubAt(_, _, _, _, _)
\* re.sub(p, repl, s) from position i on; p matches no empty string
SubFrom(p, repl, s, i) == SubAt(p, repl, s, i, SearchFrom(p, s, i))

\* m: the leftmost match from position i on
SubAt(p, repl, s, i, m) ==
    IF m = NoMatch THEN From(s, i)
    ELSE SubSeq(s, i, m[1] - 1) \o repl \o SubFrom(p, repl, s, m[3])

\* re.sub(p, repl, s)
Sub(p, repl, s) == SubFrom(p, repl, s, 1)

RECURSIVE FindIterFrom(_, _, _)
RECURSIVE FindIterAt(_, _, _)
\* [m for m in p.finditer(s)] as <<start, group start, end>>; p matches no empty string
FindIterFrom(p, s, i) == FindIterAt(p, s, SearchFrom(p, s, i))

\* m: the leftmost match from the current position on
FindIterAt(p, s, m) == IF m = NoMatch THEN <<>> ELSE <<m>> \o FindIterFrom(p, s, m[3])

FindIter(p, s) == FindIterFrom(p, s, 1)

-----------------------------------------------------------------------------
(* Python values that reach the JSON structure: the type is part of the    *)
(* value.  A dict is the sequence of its <<key, value>> items in insertion *)
(* order.                                                                  *)

PyNone == [t |-> "NoneType"]

PyStr(s) == [t |-> "str", v |-> s]

PyInt(n) == [t |-> "int", v |-> n]

PyBool(b) == [t |-> "bool", v |-> b]

PyList(xs) == [t |-> "list", v |-> xs]

PyDict(items) == [t |-> "dict", v |-> items]

\* float("nan"), the missing value of pandas
NaN == [t |-> "float", v |-> "nan"]

\* list(d.keys())
Keys(d) == [n \in 1..Len(d.v) |-> d.v[n][1]]

\* k in d
HasKeyOf(d, k) == \E n \in 1..Len(d.v) : d.v[n][1] = k

\* d[k], k in d
Get(d, k) == d.v[CHOOSE n \in 1..Len(d.v) : d.v[n][1] = k][2]

\* d.get(k, default)
GetOr(d, k, default) == IF HasKeyOf(d, k) THEN Get(d, k) ELSE default

\* d[k] = x: the value of an old key is replaced in place, a new key is appended
SetKey(d, k, x) ==
    IF HasKeyOf(d, k)
    THEN PyDict([n \in 1..Len(d.v) |-> IF d.v[n][1] = k THEN <<k, x>> ELSE d.v[n]])
    ELSE PyDict(Append(d.v, <<k, x>>))

\* str(x) in an f-string, for the values the program formats
Format(x) ==
    CASE x.t = "str" -> x.v
      [] x.t = "int" -> IntToStr(x.v)
      [] x.t = "NoneType" -> "None"

-----------------------------------------------------------------------------
(* utils.clean_text *)

\* "-\n\s*"
HyphenBreak == Lit("-\n", FALSE) \o Star(WS)

\* "\n{2,}"
BlankLines == <<Cls({"\n"}, FALSE, 2, -1)>>

clean_text(s) ==
    IF s = "" THEN ""
    ELSE Strip(Sub(BlankLines, "\n\n", Sub(HyphenBreak, "", Replace(s, "\r", "\n"))))

-----------------------------------------------------------------------------
(* utils.find_theme_pages *)

\* r"MANUALEN\s*SOM\s*V[ÆA]RKT[ØO]J", re.IGNORECASE
manual_title_pattern ==
    Lit("MANUALEN", TRUE) \o Star(WS) \o Lit("SOM", TRUE) \o Star(WS)
    \o Lit("V", TRUE) \o One(BothCases("Æ") \cup BothCases("A")) \o Lit("RKT", TRUE)
    \o One(BothCases("Ø") \cup BothCases("O")) \o Lit("J", TRUE)

\* the dict theme_keywords, in insertion order
theme_keywords ==
    << [title |-> "Det Sociale", keys |-> <<"DET SOCIALE">>],
       [title |-> "Indeklima, Energi og Miljø", keys |-> <<"INDEKLIMA", "ENERGI", "MILJØ">>],
       [title |-> "Materialer", keys |-> <<"MATERIALER">>] >>

\* Step 3's fallback list
default_themes ==
    << [title |-> "Det Sociale", page |-> 1],
       [title |-> "Indeklima, Energi og Miljø", page |-> 1],
       [title |-> "Materialer", page |-> 1] >>

\* the number of leading pages scanned when the anchor heading is not found
FallbackPages == 8

\* the positions of the non-empty pages with the anchor heading
anchor_pages(ps) == {i \in 1..Len(ps) : ps[i] # "" /\ Search(manual_title_pattern, ps[i])}

\* the first of the positions S as a 0-based index, -1 (None) without one
first_index(S) == IF S = {} THEN -1 ELSE Min(S) - 1

\* Step 1: the 0-based index of the first non-empty page with the anchor
\* heading, -1 for None
manual_page_idx_of(ps) == first_index(anchor_pages(ps))

\* the pages whose text is searched for the theme keywords
search_pages_of(ps, idx) ==
    IF idx = -1
    THEN SubSeq(ps, 1, IF Len(ps) < FallbackPages THEN Len(ps) ELSE FallbackPages)
    ELSE <<ps[idx + 1]>>

\* detected_themes with all(...) in place of any(...): a theme needs every keyword
detected_themes_all_keys(combined_text, idx) ==
    LET found(t) == \A k \in 1..Len(t.keys) : Contains(combined_text, t.keys[k])
        all == [n \in 1..Len(theme_keywords) |->
                  [title |-> theme_keywords[n].title,
                   page |-> IF idx # -1 THEN idx + 1 ELSE 1,
                   hit |-> found(theme_keywords[n])]]
        kept == SelectSeq(all, LAMBDA e : e.hit)
    IN  [n \in 1..Len(kept) |-> [title |-> kept[n].title, page |-> kept[n].page]]

\* Step 2: one entry per theme of theme_keywords with a keyword in the text
detected_themes(combined_text, idx) ==
    LET found(t) == \E k \in 1..Len(t.keys) : Contains(combined_text, t.keys[k])
        all == [n \in 1..Len(theme_keywords) |->
                  [title |-> theme_keywords[n].title,
                   page |-> IF idx # -1 THEN idx + 1 ELSE 1,
                   hit |-> found(theme_keywords[n])]]
        kept == SelectSeq(all, LAMBDA e : e.hit)
    IN  [n \in 1..Len(kept) |-> [title |-> kept[n].title, page |-> kept[n].page]]

\* Step 2 on the pages searched
detected_on(ps, idx) == detected_themes(Upper(Join("\n", search_pages_of(ps, idx))), idx)

\* Step 3: the default themes when none was found
themes_or_default(found) == IF found = <<>> THEN default_themes ELSE found

\* find_theme_pages without Step 3: no themes found, no themes returned
find_theme_pages_no_fallback(ps) == detected_on(ps, manual_page_idx_of(ps))

find_theme_pages(ps) == themes_or_default(detected_on(ps, manual_page_idx_of(ps)))

-----------------------------------------------------------------------------
(* utils.extract_description *)

\* re.sub(r"(\w)\1+", r"\1", s): a run of one word character becomes one
\* character, that is, a word character equal to the one before it is dropped
Dedup(s) ==
    CatRange([i \in 1..Len(s) |->
                 IF i > 1 /\ Char(s, i) \in WordSet /\ Char(s, i - 1) = Char(s, i)
                 THEN "" ELSE Char(s, i)],
             1, Len(s))

\* r"[>/]+"
Symbols == Plus({">", "/"})

\* r"(BO-?VEST\s+bæredygtighedsmanual[^.]*\.)", re.IGNORECASE | re.UNICODE
BoVestSentence ==
    Lit("BO", TRUE) \o Opt({"-"}) \o Lit("VEST", TRUE) \o Plus(WS)
    \o Lit("bæredygtighedsmanual", TRUE) \o <<Cls({"."}, TRUE, 0, -1)>> \o One({"."})

\* r"Bæredygtigheds\s*Manual\s*(NYBYG|RENOVERING|SIMPEL\s*SAG)?", re.IGNORECASE
HeaderPhrase ==
    Lit("Bæredygtigheds", TRUE) \o Star(WS) \o Lit("Manual", TRUE) \o Star(WS)
    \o << [k |-> "alt", opt |-> TRUE,
           alts |-> << Lit("NYBYG", TRUE),
                       Lit("RENOVERING", TRUE),
                       Lit("SIMPEL", TRUE) \o Star(WS) \o Lit("SAG", TRUE) >>] >>

\* r"Tegnestuen\s*Vandkunsten\s*Oktober\s*\d{4}", re.IGNORECASE
FooterPhrase ==
    Lit("Tegnestuen", TRUE) \o Star(WS) \o Lit("Vandkunsten", TRUE) \o Star(WS)
    \o Lit("Oktober", TRUE) \o Star(WS) \o <<Cls(DigitSet, FALSE, 4, 4)>>

\* r"\s{2,}"
Spaces == <<Cls(WS, FALSE, 2, -1)>>

\* the text with line breaks, repeated letters and >, / symbols removed
desc_normalise(t) == Sub(Symbols, "", Dedup(Strip(Replace(t, "\n", " "))))

\* match.group(1) of a match of the BO-VEST sentence, else the text given
desc_group(t, match, otherwise) ==
    IF match # NoMatch THEN SubSeq(t, match[1], match[3] - 1) ELSE otherwise

\* fallback dropped: without a BO-VEST sentence the description is empty
desc_select_no_fallback(t) == desc_group(t, SearchFrom(BoVestSentence, t, 1), "")

\* match.group(1) when the BO-VEST sentence is found, else the whole text
desc_select(t) == desc_group(t, SearchFrom(BoVestSentence, t, 1), t)

\* header and footer phrases removed, spaces collapsed, BO-VEST expanded
desc_tidy(d) ==
    Replace(Strip(Sub(Spaces, " ", Sub(FooterPhrase, "", Sub(HeaderPhrase, "", d)))),
            "BO-VEST", "BO-VEST bæredygtighedsmanual")

extract_description(t) == desc_tidy(desc_select(desc_normalise(t)))

-----------------------------------------------------------------------------
(* utils.extract_table_from_pdf, join_all_texts_as_one.                    *)
(* A pdfplumber page is [t |-> "Page", table, simple_text]: what its       *)
(* extract_table() and extract_text_simple() return.  A pandas DataFrame   *)
(* is [t |-> "DataFrame", columns, rows], its cells Python values.         *)

Page(table, simple_text) == [t |-> "Page", table |-> table, simple_text |-> simple_text]

HasColumn(df, name) == \E c \in 1..Len(df.columns) : df.columns[c] = PyStr(name)

ColumnIdx(df, name) == CHOOSE c \in 1..Len(df.columns) : df.columns[c] = PyStr(name)

\* df[name].tolist()
Column(df, name) == [r \in 1..Len(df.rows) |-> df.rows[r][ColumnIdx(df, name)]]

\* the buffer of all lines, stripped, each followed by a space, as a Series
\* of one row; no row for no line
join_all_texts_as_one(lines) ==
    LET buffer == CatRange([n \in 1..Len(lines) |-> Strip(lines[n].v) \o " "], 1, Len(lines))
    IN  IF buffer # "" THEN <<buffer>> ELSE <<>>

\* df.drop(name, axis=1)
DropColumn(df, name) ==
    LET c == ColumnIdx(df, name)
        cut(row) == SubSeq(row, 1, c - 1) \o SubSeq(row, c + 1, Len(row))
    IN  [df EXCEPT !.columns = cut(df.columns),
                   !.rows = [r \in 1..Len(df.rows) |-> cut(df.rows[r])]]

\* df[name] = series: aligned on the row index, NaN where the series has no row
SetColumn(df, name, series) ==
    LET c == ColumnIdx(df, name)
    IN  [df EXCEPT !.rows = [r \in 1..Len(df.rows) |->
                                [df.rows[r] EXCEPT ![c] = IF r <= Len(series)
                                                          THEN PyStr(series[r]) ELSE NaN]]]

\* df.dropna()
DropNa(df) ==
    [df EXCEPT !.rows = SelectSeq(df.rows,
                           LAMBDA row : \A c \in 1..Len(row) : row[c] \notin {PyNone, NaN})]

extract_table_from_pdf(pdf_pages, page_number) ==
    LET table == pdf_pages[page_number].table
    IN  IF table = PyNone \/ table.v = <<>> THEN PyNone
        ELSE LET df == [t |-> "DataFrame", columns |-> table.v[1], rows |-> Tail(table.v)]
             IN  IF \/ ~HasColumn(df, "dokumentationskrav")
                    \/ ~HasColumn(df, "krav")
                    \/ ~HasColumn(df, "niveau")
                 THEN df
                 ELSE LET d1 == DropColumn(df, "niveau")
                          d2 == SetColumn(d1, "krav", join_all_texts_as_one(Column(d1, "krav")))
                          d3 == SetColumn(d2, "dokumentationskrav",
                                          join_all_texts_as_one(Column(d2, "dokumentationskrav")))
                      IN  DropNa(d3)

-----------------------------------------------------------------------------
(* utils.build_documentation, build_task_item, build_task *)

\* the rows of a column with their 1-based positions
Enumerate(xs) == [n \in 1..Len(xs) |-> [idx |-> n, row |-> xs[n]]]

\* the cells of a column with their positions; none without table or column
column_rows(table, name) ==
    IF table # PyNone /\ HasColumn(table, name) THEN Enumerate(Column(table, name)) ELSE <<>>

\* one entry per kept row of the column dokumentationskrav
documentations(kept) ==
    [n \in 1..Len(kept) |->
        PyDict(<< <<PyStr("type"), PyStr("text")>>,
                  <<PyStr("label"), PyStr("Dokumentationskrav")>>,
                  <<PyStr("text"),
                    PyStr(IntToStr(kept[n].idx) \o ") " \o Strip(kept[n].row.v))>> >>)]

build_documentation(page_number, meta) ==
    PyList(<< PyDict(<< <<PyStr("type"), PyStr("pdf")>>,
                       <<PyStr("label"), PyStr("Definition")>>,
                       <<PyStr("text"),
                         PyStr("Manual (side " \o IntToStr(page_number) \o ")")>>,
                       <<PyStr("url"),
                         PyStr(Format(Get(meta, PyStr("url_base")))
                               \o "?page=" \o IntToStr(page_number))>> >>) >>
           \o documentations(
                  SelectSeq(column_rows(extract_table_from_pdf(Get(meta, PyStr("pages")).v,
                                                               page_number),
                                        "dokumentationskrav"),
                            LAMBDA e : e.row.t = "str" /\ e.row.v # "" /\ Strip(e.row.v) # "")))

DescriptionHeads ==
    << Lit("Beskrivelse", FALSE), Lit("Arkitektonisk kvalitet", FALSE),
       Lit("Drift og vedligehold", FALSE) >>

\* r"^(?:Beskrivelse|Arkitektonisk kvalitet|Drift og vedligehold)\s*\n([\s\S]*?)
\*   (?=\n(?:Beskrivelse|Arkitektonisk kvalitet|Drift og vedligehold
\*          |Hvordan kan projektet bidrage:|$))", re.MULTILINE
DescriptionBlock ==
    << [k |-> "bol"], [k |-> "alt", opt |-> FALSE, alts |-> DescriptionHeads] >>
    \o Star(WS) \o One({"\n"}) \o << [k |-> "mark"] >> \o LazyAny
    \o << [k |-> "look",
           alts |-> [n \in 1..5 |->
                       One({"\n"})
                       \o (IF n <= 3 THEN DescriptionHeads[n]
                           ELSE IF n = 4 THEN Lit("Hvordan kan projektet bidrage:", FALSE)
                           ELSE << [k |-> "eol"] >>)]] >>

RECURSIVE FillPlaceholders(_, _, _, _)
\* for i, match in enumerate(description_matches, 1):
\*     descriptions = descriptions.replace(f"(P{i})", match.strip())
FillPlaceholders(descriptions, s, matches, i) ==
    IF i > Len(matches) THEN descriptions
    ELSE FillPlaceholders(
             Replace(descriptions, "(P" \o IntToStr(i) \o ")",
                     Strip(SubSeq(s, matches[i][2], matches[i][3] - 1))),
             s, matches, i + 1)

\* one option per kept row of the column krav
options_of(kept) ==
    [n \in 1..Len(kept) |->
        PyDict(<< <<PyStr("id"), PyStr("option." \o IntToStr(kept[n].idx))>>,
                  <<PyStr("text"), PyStr(Strip(kept[n].row.v))>>,
                  <<PyStr("value"), PyInt(kept[n].idx)>> >>)]

\* the three blocks of the page's text put in place of (P1), (P2), (P3)
descriptions_of(simple) ==
    FillPlaceholders(
        "<strong>Beskrivelse</strong><br>(P1)"
        \o "<br><br><strong>Arkitektonisk kvalitet</strong><br>(P2)"
        \o "<br><br><strong>Drift og vedligehold</strong><br>(P3)",
        simple, FindIter(DescriptionBlock, simple), 1)

build_task_item(task_num, page_number, meta) ==
    PyDict(<< <<PyStr("type"), PyStr("task-item")>>,
              <<PyStr("code"), PyStr(Format(task_num) \o ".1")>>,
              <<PyStr("definition"),
                PyDict(<< <<PyStr("type"), PyStr("select-single")>>,
                          <<PyStr("options"),
                            PyList(<< PyDict(<< <<PyStr("id"), PyStr("option.0")>>,
                                                <<PyStr("text"), PyStr("Ingen")>>,
                                                <<PyStr("value"), PyInt(0)>> >>) >>
                                   \o options_of(
                                          SelectSeq(column_rows(
                                                        extract_table_from_pdf(
                                                            Get(meta, PyStr("pages")).v,
                                                            page_number),
                                                        "krav"),
                                                    LAMBDA e : e.row.t = "str" /\ e.row.v # "")))>> >>)>>,
              <<PyStr("options"), PyDict(<< <<PyStr("excludeFromTargets"), PyBool(FALSE)>> >>)>>,
              <<PyStr("description"),
                PyStr(descriptions_of(Get(meta, PyStr("pages")).v[page_number].simple_text))>> >>)

build_task(index, task_num, task_title, meta, page_number) ==
    PyDict(<< <<PyStr("type"), PyStr("task")>>,
              <<PyStr("valueCalculationStrategy"), PyStr("count")>>,
              <<PyStr("code"), task_num>>,
              <<PyStr("title"), PyStr(Strip(task_title))>>,
              <<PyStr("longFormTitle"), PyStr(Strip(task_title))>>,
              <<PyStr("sortOrder"), PyInt(index)>>,
              <<PyStr("options"),
                PyDict(<< <<PyStr("breadcrumbTextFormat"), PyStr(":code: :title:")>>,
                          <<PyStr("documentTreeFolderTextFormat"), PyStr(":code: :title:")>>,
                          <<PyStr("showCodeAsIndicatorTaskViewTitle"), PyBool(FALSE)>>,
                          <<PyStr("criteriaTreeElementTextFormat"), PyStr(":code: :title:")>> >>)>>,
              <<PyStr("documentation"), build_documentation(page_number, meta)>>,
              <<PyStr("items"), PyList(<<build_task_item(task_num, page_number, meta)>>)>> >>)

-----------------------------------------------------------------------------
(* utils.build_task_group *)

\* [A-ZÆØÅa-zæøå0-9\s\-\+&/,()]
TaskNameChars == UpperSet \cup LowerSet \cup DigitSet \cup WS \cup {"-", "+", "&", "/", ",", "(", ")"}

\* rf"^{re.escape(criterion)}\s*:\s*\r?\n(?P<task_name>[A-ZÆØÅa-zæøå0-9\s\-\+&/,()]+)
\*    (?=\r?\n\d{{1,2}}\b|\r?\nBeskrivelse|\r?\n[A-ZÆØÅ])", re.MULTILINE | re.IGNORECASE
task_pattern(crit) ==
    << [k |-> "bol"] >> \o Lit(crit, TRUE) \o Star(WS) \o One({":"}) \o Star(WS)
    \o Opt({"\r"}) \o One({"\n"}) \o << [k |-> "mark"] >> \o Plus(TaskNameChars)
    \o << [k |-> "look",
           alts |-> << Opt({"\r"}) \o One({"\n"}) \o <<Cls(DigitSet, FALSE, 1, 2)>> \o << [k |-> "wb"] >>,
                       Opt({"\r"}) \o One({"\n"}) \o Lit("Beskrivelse", TRUE),
                       Opt({"\r"}) \o One({"\n"}) \o One(UpperSet \cup LowerSet) >>] >>

\* text[:index].strip() when "Beskrivelse" is found at index
before_beskrivelse(name, index) ==
    IF index # 0 THEN Strip(SubSeq(name, 1, index - 1)) ELSE name

\* [line.strip() for line in text.splitlines() if line.strip()]
stripped_lines(all) == SelectSeq([n \in 1..Len(all) |-> Strip(all[n])], LAMBDA l : l # "")

\* re.fullmatch(r"\d+", line)
is_code(l) == FullMatch(Plus(DigitSet), l)

\* next((line for line in lines if ...), None)
first_code(codes) == IF codes # <<>> THEN PyStr(codes[1]) ELSE PyNone

\* {"code": code, "title": " ".join(line for line in lines if line != code)}
code_and_title(lines, code) ==
    [code |-> code, title |-> Join(" ", SelectSeq(lines, LAMBDA l : PyStr(l) # code))]

code_and_title_of(lines) == code_and_title(lines, first_code(SelectSeq(lines, is_code)))

\* the nested function clean_task_name: [code, title], code None without a
\* line of digits only
clean_task_name(name) ==
    code_and_title_of(stripped_lines(SplitLines(before_beskrivelse(name, Find(name, "Beskrivelse")))))

\* output = clean_task_name(match.group("task_name").strip()), per match
cleaned_tasks(texts, matches) ==
    [n \in 1..Len(matches) |->
        clean_task_name(Strip(SubSeq(texts, matches[n][2], matches[n][3] - 1)))]

\* the list tasks: one (task_num, task_name) per match of the pattern
matched_tasks(crit, texts) == cleaned_tasks(texts, FindIter(task_pattern(crit), texts))

\* for idx, (task_num, task_title) in enumerate(tasks): build_task(idx, ...)
task_items(tasks, meta, start_page) ==
    [n \in 1..Len(tasks) |->
        build_task(n - 1, tasks[n].code, tasks[n].title, meta, start_page)]

build_task_group(index, crit, theme_code, texts, meta, start_page) ==
    PyDict(<< <<PyStr("type"), PyStr("task-group")>>,
              <<PyStr("code"), PyStr(theme_code \o "." \o IntToStr(index + 1))>>,
              <<PyStr("title"), PyStr(Capitalize(crit))>>,
              <<PyStr("longFormTitle"), PyStr(Capitalize(crit))>>,
              <<PyStr("sortOrder"), PyInt(index)>>,
              <<PyStr("items"),
                PyList(task_items(matched_tasks(crit, texts), meta, start_page))>> >>)

-----------------------------------------------------------------------------
(* utils.code_from_title, utils.build_theme *)

code_from_title(title) ==
    CASE Contains(Upper(title), "SOCIA") -> "DS"
      [] Contains(Upper(title), "INDE") -> "IE"
      [] Contains(Upper(title), "MATER") -> "M"
      [] OTHER -> "XX"

theme_colors ==
    PyDict(<< <<PyStr("DS"), PyStr("#d96552")>>,
              <<PyStr("IE"), PyStr("#81a38b")>>,
              <<PyStr("M"), PyStr("#2c484d")>> >>)

theme_secondary_colors ==
    PyDict(<< <<PyStr("DS"), PyStr("#e49386")>>,
              <<PyStr("IE"), PyStr("#a3b9a7")>>,
              <<PyStr("M"), PyStr("#839195")>> >>)

build_theme(theme_title) ==
    LET theme_code == code_from_title(theme_title)
        primary == GetOr(theme_colors, PyStr(theme_code), PyStr("#000000"))
        secondary == GetOr(theme_secondary_colors, PyStr(theme_code), PyStr("#000000"))
    IN  PyDict(<< <<PyStr("type"), PyStr("theme")>>,
                  <<PyStr("code"), PyStr(theme_code)>>,
                  <<PyStr("title"), PyStr(theme_title)>>,
                  <<PyStr("longFormTitle"), PyStr(theme_title)>>,
                  <<PyStr("style"), PyDict(<< <<PyStr("primaryColor"), primary>>,
                                             <<PyStr("secondaryColor"), secondary>> >>)>>,
                  <<PyStr("sortOrder"), PyInt(1)>>,
                  <<PyStr("options"), PyDict(<< <<PyStr("hideCodeInReport"), PyBool(TRUE)>>,
                                               <<PyStr("hideFromBreadcrumbs"), PyBool(TRUE)>>,
                                               <<PyStr("hideFromDocumentTree"), PyBool(TRUE)>> >>)>>,
                  <<PyStr("items"), PyList(<<>>)>> >>)

-----------------------------------------------------------------------------
(* utils.detect_criteria *)

criteria_keywords ==
    << "LIVET MELLEM NABOER",
       "BYGNINGER UNDERSTØTTER DET SOCIALE LIV",
       "STEDETS KVALITET",
       "ENERGI FORBRUG",
       "SUND BYGGERI OG INDEKLIMA",
       "DET GRØNNE",
       "CO2 UDLEDNING OG",
       "ANSVARLIGT MATERIALEFORBRUG" >>

\* fallback dropped: no entry when no line holds a keyword
detect_criteria_no_fallback(text_chunk) ==
    LET known(line) == \E k \in 1..Len(criteria_keywords) : Contains(Upper(line), criteria_keywords[k])
        crits(hits) == [n \in 1..Len(hits) |-> Split(Strip(hits[n]), ":")[1]]
        distinct(cs) ==
            SelectSeq([n \in 1..Len(cs) |-> [idx |-> n, crit |-> cs[n]]],
                      LAMBDA e : \A m \in 1..(e.idx - 1) : cs[m] # e.crit)
        possible_criteria(ds) == [n \in 1..Len(ds) |-> ds[n].crit]
    IN  possible_criteria(distinct(crits(SelectSeq(Split(text_chunk, "\n"), known))))

detect_criteria(text_chunk) ==
    LET known(line) == \E k \in 1..Len(criteria_keywords) : Contains(Upper(line), criteria_keywords[k])
        \* crit = line.strip().split(":")[0]
        crits(hits) == [n \in 1..Len(hits) |-> Split(Strip(hits[n]), ":")[1]]
        \* if crit not in possible_criteria: possible_criteria.append(crit)
        distinct(cs) ==
            SelectSeq([n \in 1..Len(cs) |-> [idx |-> n, crit |-> cs[n]]],
                      LAMBDA e : \A m \in 1..(e.idx - 1) : cs[m] # e.crit)
        possible_criteria(ds) == [n \in 1..Len(ds) |-> ds[n].crit]
        fallback(cs) == IF cs = <<>> THEN <<"">> ELSE cs
    IN  fallback(possible_criteria(distinct(crits(SelectSeq(Split(text_chunk, "\n"), known)))))

-----------------------------------------------------------------------------
(* utils.build_criterion, utils.extract_task_blocks *)

\* the page number build_criterion starts from when pages is given
CriterionStartPage == 16

RECURSIVE criterion_items(_, _, _, _, _, _, _)
RECURSIVE criterion_items_with(_, _, _, _, _, _, _, _)
\* the loop of build_criterion over enumerate(pages[start_page - 1:], start_page)
criterion_items(crit, crit_code, meta, pgs, page_number, counter, items) ==
    IF page_number > Len(pgs) THEN items
    ELSE criterion_items_with(crit, crit_code, meta, pgs, page_number, counter, items,
                              build_task_group(counter, crit, crit_code, pgs[page_number],
                                               meta, page_number))

\* the rest of the loop: the page's task group is kept, and counted, when it
\* has tasks
criterion_items_with(crit, crit_code, meta, pgs, page_number, counter, items, group) ==
    IF Get(group, PyStr("items")).v # <<>>
    THEN criterion_items(crit, crit_code, meta, pgs, page_number + 1, counter + 1,
                         Append(items, group))
    ELSE criterion_items(crit, crit_code, meta, pgs, page_number + 1, counter, items)

\* pgs: PyNone, or the list of page texts
build_criterion(crit, c_idx, theme_code, meta, start_page, pgs) ==
    LET crit_code == theme_code \o IntToStr(c_idx + 1)
    IN  PyDict(<< <<PyStr("type"), PyStr("criterion")>>,
                  <<PyStr("code"), PyStr(crit_code)>>,
                  <<PyStr("title"), PyStr(Capitalize(crit))>>,
                  <<PyStr("longFormTitle"), PyStr(Capitalize(crit))>>,
                  <<PyStr("sortOrder"), PyInt(c_idx)>>,
                  <<PyStr("options"),
                    PyDict(<< <<PyStr("hideCodeInReport"), PyBool(TRUE)>>,
                              <<PyStr("hideFromBreadcrumbs"), PyBool(TRUE)>>,
                              <<PyStr("hideFromDocumentTree"), PyBool(TRUE)>>,
                              <<PyStr("criteriaTreeElementTextFormat"), PyStr(":title:")>> >>)>>,
                  <<PyStr("items"),
                    PyList(IF pgs # PyNone
                           THEN criterion_items(crit, crit_code, meta, pgs.v,
                                                CriterionStartPage, 0, <<>>)
                           ELSE <<>>)>> >>)

\* for c_idx, criterion in enumerate(criteria): if criterion: build_criterion(...)
built_criteria(criteria, theme_code, meta, start_page, pgs) ==
    [n \in 1..Len(criteria) |->
        IF criteria[n] # ""
        THEN build_criterion(criteria[n], n - 1, theme_code, meta, start_page, pgs)
        ELSE PyNone]

\* test of the items dropped: every criterion built is attached to the theme
with_criteria_unfiltered(theme_obj, objs) ==
    SetKey(theme_obj, PyStr("items"),
           PyList(Get(theme_obj, PyStr("items")).v \o SelectSeq(objs, LAMBDA c : c # PyNone)))

\* if len(criterion_obj["items"]) > 0: theme_obj["items"].append(criterion_obj)
with_criteria(theme_obj, objs) ==
    SetKey(theme_obj, PyStr("items"),
           PyList(Get(theme_obj, PyStr("items")).v
                  \o SelectSeq(objs, LAMBDA c : c # PyNone /\ Get(c, PyStr("items")).v # <<>>)))

extract_task_blocks(text_chunk, theme_title, meta, start_page, pgs) ==
    with_criteria(build_theme(theme_title),
                  built_criteria(detect_criteria(text_chunk), code_from_title(theme_title),
                                 meta, start_page, pgs))

-----------------------------------------------------------------------------
(* utils.build_json_structure *)

\* n in decimal, with zeros in front up to the width
ZeroPad(n, width) ==
    CatRange([i \in 1..width |-> "0"], 1, width - Len(IntToStr(n))) \o IntToStr(n)

\* datetime.isoformat() of [year, month, day, hour, minute, second,
\* microsecond]: the microseconds are left out when they are zero
isoformat(dt) ==
    ZeroPad(dt.year, 4) \o "-" \o ZeroPad(dt.month, 2) \o "-" \o ZeroPad(dt.day, 2)
    \o "T" \o ZeroPad(dt.hour, 2) \o ":" \o ZeroPad(dt.minute, 2) \o ":" \o ZeroPad(dt.second, 2)
    \o (IF dt.microsecond # 0 THEN "." \o ZeroPad(dt.microsecond, 6) ELSE "")

\* "date" left as the datetime object: isoformat() forgotten
build_json_structure_datetime(meta, theme_list, now) ==
    PyDict(<< <<PyStr("id"), GetOr(meta, PyStr("id"), PyStr(""))>>,
              <<PyStr("name"), GetOr(meta, PyStr("name"), PyStr(""))>>,
              <<PyStr("shortName"), GetOr(meta, PyStr("shortName"), PyStr(""))>>,
              <<PyStr("group"), GetOr(meta, PyStr("group"), PyStr("bovest"))>>,
              <<PyStr("description"), GetOr(meta, PyStr("description"), PyStr(""))>>,
              <<PyStr("versions"),
                PyList(<< PyDict(<< <<PyStr("version"), PyStr("1.0.0")>>,
                                    <<PyStr("date"), [t |-> "datetime", v |-> now]>>,
                                    <<PyStr("themes"), PyList(theme_list)>> >>) >>)>> >>)

\* the root made of manual_meta itself: every key of manual_meta is kept
build_json_structure_all_meta(meta, theme_list, now) ==
    SetKey(meta, PyStr("versions"),
           PyList(<< PyDict(<< <<PyStr("version"), PyStr("1.0.0")>>,
                               <<PyStr("date"), PyStr(isoformat(now) \o "Z")>>,
                               <<PyStr("themes"), PyList(theme_list)>> >>) >>))

\* now: what datetime.utcnow() returns
build_json_structure(meta, theme_list, now) ==
    PyDict(<< <<PyStr("id"), GetOr(meta, PyStr("id"), PyStr(""))>>,
              <<PyStr("name"), GetOr(meta, PyStr("name"), PyStr(""))>>,
              <<PyStr("shortName"), GetOr(meta, PyStr("shortName"), PyStr(""))>>,
              <<PyStr("group"), GetOr(meta, PyStr("group"), PyStr("bovest"))>>,
              <<PyStr("description"), GetOr(meta, PyStr("description"), PyStr(""))>>,
              <<PyStr("versions"),
                PyList(<< PyDict(<< <<PyStr("version"), PyStr("1.0.0")>>,
                                    <<PyStr("date"), PyStr(isoformat(now) \o "Z")>>,
                                    <<PyStr("themes"), PyList(theme_list)>> >>) >>)>> >>)

-----------------------------------------------------------------------------
(* utils.save_json: json.dump(obj, f, ensure_ascii=False, indent=2), and   *)
(* json.load of what was written.                                          *)

\* the characters json.dump escapes in a string under ensure_ascii=False
EscapeOf ==
    [c \in {"\"", "\\", "\n", "\r", "\t", "\f"} |->
        CASE c = "\"" -> "\\\""
          [] c = "\\" -> "\\\\"
          [] c = "\n" -> "\\n"
          [] c = "\r" -> "\\r"
          [] c = "\t" -> "\\t"
          [] c = "\f" -> "\\f"]

json_string(s) == "\"" \o MapStr(EscapeOf, s) \o "\""

\* a dict key as json.dump writes it: str, int, bool and None keys are allowed
json_key(k) ==
    CASE k.t = "str" -> k.v
      [] k.t = "int" -> IntToStr(k.v)
      [] k.t = "bool" -> IF k.v THEN "true" ELSE "false"
      [] k.t = "NoneType" -> "null"

\* the indentation of a nesting level under indent=2
Indent(level) == CatRange([i \in 1..(2 * level) |-> " "], 1, 2 * level)

RECURSIVE Serializable(_)
\* json.dump raises TypeError for any other value
Serializable(v) ==
    CASE v.t \in {"str", "int", "bool", "NoneType", "float"} -> TRUE
      [] v.t = "list" -> \A n \in 1..Len(v.v) : Serializable(v.v[n])
      [] v.t = "dict" -> \A n \in 1..Len(v.v) :
                            /\ v.v[n][1].t \in {"str", "int", "bool", "NoneType"}
                            /\ Serializable(v.v[n][2])
      [] OTHER -> FALSE

RECURSIVE json_encode(_, _)
json_encode(v, level) ==
    CASE v.t = "str" -> json_string(v.v)
      [] v.t = "int" -> IntToStr(v.v)
      [] v.t = "bool" -> (IF v.v THEN "true" ELSE "false")
      [] v.t = "NoneType" -> "null"
      [] v.t = "float" -> "NaN"
      [] v.t = "list" ->
           IF v.v = <<>> THEN "[]"
           ELSE "[\n"
                \o Join(",\n", [n \in 1..Len(v.v) |->
                                   Indent(level + 1) \o json_encode(v.v[n], level + 1)])
                \o "\n" \o Indent(level) \o "]"
      [] v.t = "dict" ->
           IF v.v = <<>> THEN "{}"
           ELSE "{\n"
                \o Join(",\n", [n \in 1..Len(v.v) |->
                                   Indent(level + 1) \o json_string(json_key(v.v[n][1])) \o ": "
                                   \o json_encode(v.v[n][2], level + 1)])
                \o "\n" \o Indent(level) \o "}"

TypeError == [t |-> "TypeError"]

\* the text json.dump writes, or TypeError
json_dumps(v) == IF Serializable(v) THEN json_encode(v, 0) ELSE TypeError

\* the character at position i, "" outside the string
At(s, i) == IF 1 <= i /\ i <= Len(s) THEN Char(s, i) ELSE ""

RECURSIVE SkipWs(_, _)
\* the first position from i on that holds no JSON whitespace
SkipWs(s, i) == IF At(s, i) \in {" ", "\n", "\r", "\t"} THEN SkipWs(s, i + 1) ELSE i

RECURSIVE BackslashesBefore(_, _)
\* the number of backslashes in a row that end just before position j
BackslashesBefore(s, j) == IF At(s, j - 1) = "\\" THEN 1 + BackslashesBefore(s, j - 1) ELSE 0

RECURSIVE ClosingQuote(_, _)
\* the position of the first quote from position j on that no backslash
\* escapes, 0 when there is none
ClosingQuote(s, j) ==
    IF j > Len(s) THEN 0
    ELSE LET hi == IF j + 31 < Len(s) THEN j + 31 ELSE Len(s)
             qs == {n \in j..hi : Char(s, n) = "\"" /\ BackslashesBefore(s, n) % 2 = 0}
         IN  IF qs # {} THEN Min(qs) ELSE ClosingQuote(s, hi + 1)

\* the character an escape sequence \c stands for
UnescapeOf ==
    [c \in {"\"", "\\", "/", "n", "r", "t", "f"} |->
        CASE c = "n" -> "\n"
          [] c = "r" -> "\r"
          [] c = "t" -> "\t"
          [] c = "f" -> "\f"
          [] OTHER -> c]

\* the content of a JSON string with its escape sequences replaced
Unescape(body) ==
    CatRange([n \in 1..Len(body) |->
                 IF BackslashesBefore(body, n) % 2 = 1
                 THEN (IF Char(body, n) \in DOMAIN UnescapeOf THEN UnescapeOf[Char(body, n)]
                       ELSE Char(body, n))
                 ELSE IF Char(body, n) = "\\" THEN "" ELSE Char(body, n)],
             1, Len(body))

RECURSIVE DigitsEnd(_, _)
\* the position after the digits from position i on
DigitsEnd(s, i) == IF At(s, i) \in DigitSet THEN DigitsEnd(s, i + 1) ELSE i

RECURSIVE StrToInt(_)
\* int(digits)
StrToInt(digits) ==
    IF digits = "" THEN 0
    ELSE 10 * StrToInt(SubSeq(digits, 1, Len(digits) - 1))
         + (CHOOSE d \in 0..9 : Char(DIGITS, d + 1) = Char(digits, Len(digits)))

JsonFail == [ok |-> FALSE]

Parsed(v, next) == [ok |-> TRUE, v |-> v, next |-> next]

\* a string whose opening quote is at position i
ParseString(s, i) ==
    IF ClosingQuote(s, i + 1) = 0 THEN JsonFail
    ELSE Parsed(PyStr(Unescape(SubSeq(s, i + 1, ClosingQuote(s, i + 1) - 1))),
                ClosingQuote(s, i + 1) + 1)

\* an integer that starts at position i
ParseNumber(s, i) ==
    IF At(s, i) = "-"
    THEN (IF DigitsEnd(s, i + 1) = i + 1 THEN JsonFail
          ELSE Parsed(PyInt(0 - StrToInt(SubSeq(s, i + 1, DigitsEnd(s, i + 1) - 1))),
                      DigitsEnd(s, i + 1)))
    ELSE Parsed(PyInt(StrToInt(SubSeq(s, i, DigitsEnd(s, i) - 1))), DigitsEnd(s, i))

RECURSIVE ParseValue(_, _)
RECURSIVE ParseElems(_, _, _)
RECURSIVE ParseElemsAfter(_, _, _)
RECURSIVE ParseMembers(_, _, _)
RECURSIVE ParseMemberValue(_, _, _)
RECURSIVE ParseMembersAfter(_, _, _, _)

\* the JSON value that starts at position i, whitespace skipped
ParseValue(s, i) ==
    CASE At(s, i) \in {" ", "\n", "\r", "\t"} -> ParseValue(s, SkipWs(s, i))
      [] At(s, i) = "{" -> IF At(s, SkipWs(s, i + 1)) = "}"
                           THEN Parsed(PyDict(<<>>), SkipWs(s, i + 1) + 1)
                           ELSE ParseMembers(s, SkipWs(s, i + 1), PyDict(<<>>))
      [] At(s, i) = "[" -> IF At(s, SkipWs(s, i + 1)) = "]"
                           THEN Parsed(PyList(<<>>), SkipWs(s, i + 1) + 1)
                           ELSE ParseElems(s, i + 1, <<>>)
      [] At(s, i) = "\"" -> ParseString(s, i)
      [] At(s, i) \in DigitSet \cup {"-"} -> ParseNumber(s, i)
      [] StartsAt(s, "true", i) -> Parsed(PyBool(TRUE), i + 4)
      [] StartsAt(s, "false", i) -> Parsed(PyBool(FALSE), i + 5)
      [] StartsAt(s, "null", i) -> Parsed(PyNone, i + 4)
      [] StartsAt(s, "NaN", i) -> Parsed(NaN, i + 3)
      [] OTHER -> JsonFail

\* the elements of an array from position i on, acc those before
ParseElems(s, i, acc) == ParseElemsAfter(s, ParseValue(s, i), acc)

\* r: the element parsed last
ParseElemsAfter(s, r, acc) ==
    IF ~r.ok THEN JsonFail
    ELSE CASE At(s, SkipWs(s, r.next)) = "," ->
                ParseElems(s, SkipWs(s, r.next) + 1, Append(acc, r.v))
           [] At(s, SkipWs(s, r.next)) = "]" ->
                Parsed(PyList(Append(acc, r.v)), SkipWs(s, r.next) + 1)
           [] OTHER -> JsonFail

\* the members of an object from the key at position i on, acc those before
ParseMembers(s, i, acc) ==
    IF At(s, i) # "\"" THEN JsonFail ELSE ParseMemberValue(s, ParseString(s, i), acc)

\* key: the key parsed last, followed by ":" and the value
ParseMemberValue(s, key, acc) ==
    IF ~key.ok \/ At(s, SkipWs(s, key.next)) # ":" THEN JsonFail
    ELSE ParseMembersAfter(s, key.v, ParseValue(s, SkipWs(s, key.next) + 1), acc)

\* r: the value parsed last; a key met again keeps its place and takes the
\* new value
ParseMembersAfter(s, key, r, acc) ==
    IF ~r.ok THEN JsonFail
    ELSE CASE At(s, SkipWs(s, r.next)) = "," ->
                ParseMembers(s, SkipWs(s, SkipWs(s, r.next) + 1), SetKey(acc, key, r.v))
           [] At(s, SkipWs(s, r.next)) = "}" ->
                Parsed(SetKey(acc, key, r.v), SkipWs(s, r.next) + 1)
           [] OTHER -> JsonFail

JSONDecodeError == [t |-> "JSONDecodeError"]

\* r: the value parsed at the start of the text; nothing may follow it
Loaded(s, r) == IF r.ok /\ SkipWs(s, r.next) > Len(s) THEN r.v ELSE JSONDecodeError

\* json.loads(text)
json_loads(s) == Loaded(s, ParseValue(s, 1))

-----------------------------------------------------------------------------
(* parse_manuals.extract_text_pages, parse_manuals.parse_manual.           *)
(* A PDF is [path, doc]: doc is the sequence of what extract_text()        *)
(* returns for its pages, None or a str.                                   *)

RuntimeError == [t |-> "RuntimeError"]

IndexError == [t |-> "IndexError"]

\* p.extract_text() or ""
text_or_empty(extracted) == IF extracted = PyNone THEN "" ELSE extracted.v

\* lib: the value of PDFLIB; the branch of either library appends
\* p.extract_text() or "" for every page
extract_text_pages(lib, doc) ==
    IF lib = "pdfplumber" THEN [n \in 1..Len(doc) |-> text_or_empty(doc[n])]
    ELSE IF lib = "pypdf2" THEN [n \in 1..Len(doc) |-> text_or_empty(doc[n])]
    ELSE RuntimeError

\* [clean_text(p) for p in ...], as a list
cleaned_pages(raw) == SubSeq([n \in 1..Len(raw) |-> clean_text(raw[n])], 1, Len(raw))

\* xs[a:b] for 0 <= a <= b
Slice(xs, a, b) == SubSeq(xs, a + 1, IF b < Len(xs) THEN b ELSE Len(xs))

\* the body of the loop over enumerate(theme_pages)
theme_of(pgs, meta, t, t_idx) ==
    SetKey(extract_task_blocks(Join("\n\n", Slice(pgs, t.page + 1, t.page + 1 + 40)),
                               t.title, meta, t.page + 1, PyNone),
           PyStr("sortOrder"), PyInt(t_idx + 1))

themes_of(pgs, meta, tps) == [n \in 1..Len(tps) |-> theme_of(pgs, meta, tps[n], n - 1)]

\* parse_manual from line 60 on; meta: manual_meta with its description set
parse_themes(pgs, meta, now) ==
    build_json_structure(meta, themes_of(pgs, meta, find_theme_pages(pgs)), now)

\* manual_meta after parse_manual, which assigns manual_meta["description"]
meta_after_parse(pgs, meta) ==
    IF pgs = <<>> THEN meta
    ELSE SetKey(meta, PyStr("description"), PyStr(extract_description(pgs[1])))

\* parse_manual from line 56 on: pages[0] raises IndexError on an empty list
parse_pages(pgs, meta, now) ==
    IF pgs = <<>> THEN IndexError ELSE parse_themes(pgs, meta_after_parse(pgs, meta), now)

\* the structure returned, or the exception raised
parse_manual(lib, doc, meta, now) ==
    IF lib \notin {"pdfplumber", "pypdf2"} THEN RuntimeError
    ELSE parse_pages(cleaned_pages(extract_text_pages(lib, doc)), meta, now)

-----------------------------------------------------------------------------
(* parse_manuals.main *)

\* Path.name: the last component of the path
Name(path) == Split(path, "/")[Len(Split(path, "/"))]

\* the name without its suffix: the suffix starts at the last dot, unless
\* that dot is the first or the last character of the name
StemOf(name) ==
    LET dots == {i \in 1..Len(name) : Char(name, i) = "."}
    IN  IF dots = {} \/ Max(dots) = 1 \/ Max(dots) = Len(name) THEN name
        ELSE SubSeq(name, 1, Max(dots) - 1)

\* Path.stem
Stem(path) == StemOf(Name(path))

\* str.title(): a letter after a letter is lower case, any other letter upper case
Title(s) ==
    CatRange([i \in 1..Len(s) |->
                 IF i > 1 /\ Char(s, i - 1) \in UpperSet \cup LowerSet
                 THEN Lower(Char(s, i)) ELSE Upper(Char(s, i))],
             1, Len(s))

\* the manual type of a PDF, from its file name
key_of(path) ==
    CASE Contains(Upper(Stem(path)), "NYBYG") -> "NYBYG"
      [] Contains(Upper(Stem(path)), "SIMP") \/ Contains(Upper(Stem(path)), "SAG") -> "SIMPEL SAG"
      [] Contains(Upper(Stem(path)), "RENOV") -> "RENOVERING"
      [] OTHER -> "UNKNOWN"

meta_map ==
    PyDict(<<
      <<PyStr("NYBYG"),
        PyDict(<< <<PyStr("id"), PyStr("f7a3e8b2-9c4d-4f1a-8e5c-2d6b9a1c7f3e")>>,
                  <<PyStr("url_base"),
                    PyStr("https://storage.googleapis.com/custom-css/f7a3e8b2-9c4d-4f1a-8e5c-2d6b9a1c7f3e/B%C3%A6redygtighedsmanual%20-%20Nybyg.pdf")>> >>)>>,
      <<PyStr("SIMPEL SAG"),
        PyDict(<< <<PyStr("id"), PyStr("f7a3b8e5-4c2d-4f1b-9e6a-3d8c7b2f1a5e")>>,
                  <<PyStr("url_base"),
                    PyStr("https://storage.googleapis.com/custom-css/f7a3b8e5-4c2d-4f1b-9e6a-3d8c7b2f1a5e/B%C3%A6redygtighedsmanual%20-%20Simpel%20sag.pdf")>> >>)>>,
      <<PyStr("RENOVERING"),
        PyDict(<< <<PyStr("id"), PyStr("2b9d4e7c-6a1f-4d3b-8c5e-9f2a7b4d1c6e")>>,
                  <<PyStr("url_base"),
                    PyStr("https://storage.googleapis.com/custom-css/2b9d4e7c-6a1f-4d3b-8c5e-9f2a7b4d1c6e/B%C3%A6redygtighedsmanual%20-%20Renovering.pdf")>> >>)>> >>)

\* the dict manual_meta main builds for a PDF
manual_meta_of(key, meta) ==
    PyDict(<< <<PyStr("id"), Get(meta, PyStr("id"))>>,
              <<PyStr("name"), PyStr("BO-VEST " \o Title(key))>>,
              <<PyStr("shortName"), PyStr(Title(key))>>,
              <<PyStr("group"), PyStr("bovest")>>,
              <<PyStr("description"), PyStr(Title(key))>>,
              <<PyStr("url_base"), Get(meta, PyStr("url_base"))>> >>)

\* meta_map.get(key, {"id": "", "url_base": f"file://{pdf_path}"})
manual_meta_for(path) ==
    manual_meta_of(key_of(path),
                   GetOr(meta_map, PyStr(key_of(path)),
                         PyDict(<< <<PyStr("id"), PyStr("")>>,
                                   <<PyStr("url_base"), PyStr("file://" \o path)>> >>)))

\* the name of the file main writes for a PDF, in the output directory
outfile_of(path) == "bovest-" \o Replace(Lower(key_of(path)), " ", "-") \o ".json"

-----------------------------------------------------------------------------
(* The variables a specification does not use keep these values. *)

mainVars == <<libs, PDFLIB, pdfs, outdir, done>>

themeVars == <<pages, theme_pages>>

descVars == <<text, description>>

taskVars == <<criterion, page_texts, task_group>>

jsonVars == <<manual_meta, themes, root>>

critVars == <<chunk, block_pages, detected, theme>>

MainIdle == libs = {} /\ PDFLIB = "" /\ pdfs = <<>> /\ outdir = {} /\ done = <<>>

ThemeIdle == pages = <<>> /\ theme_pages = <<>>

DescIdle == text = "" /\ description = ""

TaskIdle == criterion = "" /\ page_texts = "" /\ task_group = <<>>

JsonIdle == manual_meta = <<>> /\ themes = <<>> /\ root = <<>>

CritIdle == chunk = "" /\ block_pages = <<>> /\ detected = <<>> /\ theme = <<>>

-----------------------------------------------------------------------------
(* SpecThemes: find_theme_pages applied to the page texts of a document.   *)
(* The document is a run of pages without heading or keyword, followed by  *)
(* pages drawn from ThemePageTexts.                                        *)

\* leading pages without anchor heading or keyword, at most
MaxLead == 8

\* pages drawn from ThemePageTexts, at most
MaxTail == 2

Filler == "Indhold"

ThemePageTexts ==
    { "",
      "Forord",
      "Manualen som\nVærktøj",
      "MANUALEN SOM VÆRKTØJ\nDET SOCIALE\nINDEKLIMA, ENERGI OG MILJØ\nMATERIALER",
      "Det Sociale\nEnergi\nMaterialer",
      "manualen som varktoj\nMaterialer",
      "Miljø" }

ThemesInit ==
    /\ pc = "pages"
    /\ pages = <<>>
    /\ theme_pages = <<>>
    /\ MainIdle /\ DescIdle /\ TaskIdle /\ JsonIdle /\ CritIdle

\* the caller builds the list of page texts, one page after the other
ThemesAppendPage ==
    /\ pc = "pages"
    /\ \E t \in ThemePageTexts \cup {Filler} :
          /\ IF t = Filler
             THEN Len(pages) < MaxLead /\ \A i \in 1..Len(pages) : pages[i] = Filler
             ELSE Len(SelectSeq(pages, LAMBDA x : x # Filler)) < MaxTail
          /\ pages' = Append(pages, t)
    /\ UNCHANGED <<pc, theme_pages, mainVars, descVars, taskVars, jsonVars, critVars>>

ThemesCall ==
    /\ pc = "pages"
    /\ theme_pages' = find_theme_pages(pages)
    /\ pc' = "themes_done"
    /\ UNCHANGED <<pages, mainVars, descVars, taskVars, jsonVars, critVars>>

ThemesNext == ThemesAppendPage \/ ThemesCall

SpecThemes == ThemesInit /\ [][ThemesNext]_vars

\* page i is the first non-empty page with the anchor heading
AnchorAt(i) == pages[i] # "" /\ Search(manual_title_pattern, pages[i])

NoAnchor == \A i \in 1..Len(pages) : ~AnchorAt(i)

FirstAnchor(i) == AnchorAt(i) /\ \A j \in 1..(i - 1) : ~AnchorAt(j)

\* text t holds, in any case of letters, a keyword of the n-th theme
HasKey(t, n) == \E k \in 1..Len(theme_keywords[n].keys) : Contains(Upper(t), theme_keywords[n].keys[k])

\* text t holds a keyword of the n-th theme as written in theme_keywords
HasKeyAsWritten(t, n) == \E k \in 1..Len(theme_keywords[n].keys) : Contains(t, theme_keywords[n].keys[k])

Titles(ts) == [n \in 1..Len(ts) |-> ts[n].title]

ThreeTitles == <<"Det Sociale", "Indeklima, Energi og Miljø", "Materialer">>

\* C1 as stated: when some page contains the three theme keywords,
\* find_theme_pages returns the three titles in order, whatever the other
\* pages contain and wherever the anchor heading is.
C1_SomePageHasKeywords ==
    (pc = "themes_done" /\ \E i \in 1..Len(pages) : \A n \in 1..3 : HasKeyAsWritten(pages[i], n))
        => Titles(theme_pages) = ThreeTitles

\* the text find_theme_pages searches holds a keyword of each theme: the first
\* page with the anchor heading does, or no page has the heading and each
\* theme has a keyword among the first 8 pages
SearchedHasThreeKeywords ==
    \/ \E i \in 1..Len(pages) : FirstAnchor(i) /\ \A n \in 1..3 : HasKey(pages[i], n)
    \/ /\ NoAnchor
       /\ \A n \in 1..3 : \E i \in 1..Len(pages) : i <= 8 /\ HasKey(pages[i], n)

\* C1 (amended): when the text find_theme_pages searches (the first page with
\* the anchor heading, or the first 8 pages when no page has it) contains the
\* three theme keywords, it returns exactly the three titles, in order.
C1_SearchedTextHasKeywords ==
    (pc = "themes_done" /\ SearchedHasThreeKeywords) => Titles(theme_pages) = ThreeTitles

\* C1's case: the anchor heading is on a later page that has the three
\* keywords, and three themes came back
C1_Witness ==
    /\ pc = "themes_done"
    /\ \E i \in 2..Len(pages) : FirstAnchor(i) /\ \A n \in 1..3 : HasKey(pages[i], n)
    /\ Len(theme_pages) = 3

\* C2: when no page contains any theme keyword, find_theme_pages returns the
\* three default themes, each with page 1, in order, anchor heading or not.
C2_DefaultThemes ==
    (pc = "themes_done" /\ \A i \in 1..Len(pages) : \A n \in 1..3 : ~HasKey(pages[i], n))
        => theme_pages = << [title |-> "Det Sociale", page |-> 1],
                            [title |-> "Indeklima, Energi og Miljø", page |-> 1],
                            [title |-> "Materialer", page |-> 1] >>

\* C2's case: no keyword anywhere, the anchor heading on a page after the
\* first, and the call has returned
C2_Witness ==
    /\ pc = "themes_done"
    /\ \A i \in 1..Len(pages) : \A n \in 1..3 : ~HasKey(pages[i], n)
    /\ \E i \in 2..Len(pages) : FirstAnchor(i)

-----------------------------------------------------------------------------
(* SpecDesc: extract_description applied to a text of up to MaxLines lines *)
(* drawn from DescLines.                                                   *)

\* lines of the text given to extract_description, at most
MaxLines == 3

DescLines ==
    { "",
      "Bæredygtigheds Manual NYBYG",
      "BO-VEST bæredygtighedsmanual for nybyggeri.",
      "Tegnestuen Vandkunsten Oktober 2023",
      "TTeeggnneessttuueenn >> Simpel  Sag //",
      "bovest Bæredygtighedsmanual uden punktum",
      "Mere tekst." }

DescInit ==
    /\ pc = "text"
    /\ text \in DescLines
    /\ description = ""
    /\ MainIdle /\ ThemeIdle /\ TaskIdle /\ JsonIdle /\ CritIdle

\* the caller's text grows by one line
DescAppendLine ==
    /\ pc = "text"
    /\ Len(Split(text, "\n")) < MaxLines
    /\ \E l \in DescLines : text' = text \o "\n" \o l
    /\ UNCHANGED <<pc, description, mainVars, themeVars, taskVars, jsonVars, critVars>>

\* extract_description has no raise statement and every call it makes is
\* defined on every str: the call returns
DescCall ==
    /\ pc = "text"
    /\ description' = extract_description(text)
    /\ pc' = "desc_done"
    /\ UNCHANGED <<text, mainVars, themeVars, taskVars, jsonVars, critVars>>

DescNext == DescAppendLine \/ DescCall

SpecDesc == DescInit /\ [][DescNext]_vars

\* the text, as extract_description searches it, holds no sentence
\* "BO-VEST bæredygtighedsmanual ... ."
NoBoVestSentence(t) ==
    LET flat == Lower(desc_normalise(t))
    IN  \A i \in 1..Len(flat) :
           (StartsAt(flat, "bovest", i) \/ StartsAt(flat, "bo-vest", i))
               => ~Contains(From(flat, i), ".")

\* C3: extract_description returns a string for every text; when the text has
\* no BO-VEST sentence the result is the whole text with line breaks,
\* repeated letters, symbols and header/footer phrases removed, not an error.
C3_DescriptionFromWholeText ==
    pc = "desc_done" =>
        /\ Len(description) >= 0
        /\ NoBoVestSentence(text) => description = desc_tidy(desc_normalise(text))

\* C3's case: a text without BO-VEST sentence whose description is not empty
C3_Witness ==
    /\ pc = "desc_done"
    /\ NoBoVestSentence(text)
    /\ Contains(text, "Bæredygtigheds Manual")
    /\ description # ""

-----------------------------------------------------------------------------
(* SpecTasks: build_task_group applied, with criterion "SOCIAL LIV", to a  *)
(* page text of up to MaxBlockLines lines drawn from TaskLines, for a      *)
(* manual whose one pdfplumber page is drawn from PdfPages.                *)

\* lines of the page text given to build_task_group, at most
MaxBlockLines == 4

TaskLines ==
    { "SOCIAL LIV:", "01", "Fælles gård", "Beskrivelse", "Attraktive stueetager + kantzoner" }

PdfPages ==
    { Page(PyNone, ""),
      Page(PyList(<< <<PyStr("niveau"), PyStr("krav"), PyStr("dokumentationskrav")>>,
                     <<PyStr("1"), PyStr("Fælles gård etableres "), PyStr(" Situationsplan")>>,
                     <<PyStr("2"), PyStr("med opholdsmuligheder"), PyStr("Foto")>> >>),
           "Beskrivelse\nEn gård.\nArkitektonisk kvalitet\nGod.\n") }

TaskMeta(pg) ==
    PyDict(<< <<PyStr("url_base"), PyStr("file://nybyg.pdf")>>,
              <<PyStr("pages"), PyList(<<pg>>)>> >>)

TasksInit ==
    /\ pc = "block"
    /\ criterion = "SOCIAL LIV"
    /\ page_texts \in TaskLines
    /\ task_group = <<>>
    /\ manual_meta \in {TaskMeta(pg) : pg \in PdfPages}
    /\ themes = <<>> /\ root = <<>>
    /\ MainIdle /\ ThemeIdle /\ DescIdle /\ CritIdle

\* the caller's page text grows by one line
TasksAppendLine ==
    /\ pc = "block"
    /\ Len(Split(page_texts, "\n")) < MaxBlockLines
    /\ \E l \in TaskLines : page_texts' = page_texts \o "\n" \o l
    /\ UNCHANGED <<pc, criterion, task_group, mainVars, themeVars, descVars, jsonVars, critVars>>

TasksCall ==
    /\ pc = "block"
    /\ task_group' = build_task_group(0, criterion, "DS1", page_texts, manual_meta, 1)
    /\ pc' = "task_done"
    /\ UNCHANGED <<criterion, page_texts, mainVars, themeVars, descVars, jsonVars, critVars>>

TasksNext == TasksAppendLine \/ TasksCall

SpecTasks == TasksInit /\ [][TasksNext]_vars

\* the tasks of the task group returned
BuiltTasks == Get(task_group, PyStr("items")).v

IsNumeric(x) == x.t = "str" /\ x.v # "" /\ \A i \in 1..Len(x.v) : Char(x.v, i) \in DigitSet

\* C4: on the block "<criterion>:\n<digits>\n<title line>" build_task_group
\* yields exactly one task, its code the line of digits and its title the
\* title line ("SOCIAL LIV:\n01\nFælles gård": code "01", title "Fælles gård").
C4_CodeAndTitle ==
    \A t \in {"Fælles gård", "Attraktive stueetager + kantzoner"} :
        (pc = "task_done" /\ page_texts = criterion \o ":\n01\n" \o t)
            => /\ Len(BuiltTasks) = 1
               /\ Get(BuiltTasks[1], PyStr("code")) = PyStr("01")
               /\ Get(BuiltTasks[1], PyStr("title")) = PyStr(t)

\* C10: every task built has a code that is a non-empty string of digits, and
\* its task item's code is that string followed by ".1", for every matched
\* block, also one without a line of digits only
\* ("SOCIAL LIV:\nFælles gård\nBeskrivelse").
C10_NumericCodes ==
    pc = "task_done" =>
        \A n \in 1..Len(BuiltTasks) :
            LET code == Get(BuiltTasks[n], PyStr("code"))
                item == Get(BuiltTasks[n], PyStr("items")).v[1]
            IN  /\ IsNumeric(code)
                /\ Get(item, PyStr("code")) = PyStr(Format(code) \o ".1")

-----------------------------------------------------------------------------
(* Spec: the program run as a script. The modules are imported, main lists *)
(* the PDFs of the input directory and handles them one after the other.   *)

\* the most PDFs in the input directory
MaxPdfs == 2

InputDir == "manuals/pdf"

\* the files the input directory may hold; doc: what extract_text() returns
\* for each page of the file
Files ==
    { [path |-> InputDir \o "/Nybyg.pdf",
       doc |-> <<PyStr("BO-VEST bygger \"grønt\".\nManualen som værktøj\nDet Sociale\nMaterialer"),
                 PyNone,
                 PyStr("Stedets kvalitet:\n01\nGode dagslysforhold\nBeskrivelse\nDet grønne: træer")>>],
      [path |-> InputDir \o "/nybyg-2024.pdf", doc |-> <<PyStr("Forside\n\n\nMaterialer")>>],
      [path |-> InputDir \o "/Simpel sag.pdf", doc |-> <<PyNone>>],
      [path |-> InputDir \o "/Renovering.pdf", doc |-> <<>>],
      [path |-> InputDir \o "/bilag.pdf", doc |-> <<PyStr("")>>],
      [path |-> InputDir \o "/noter.pdf", doc |-> <<PyStr("Energi og miljø\f2"), PyStr("Se side 1")>>] }

RECURSIVE Listings(_)
\* what glob("*.pdf") may return: up to n files of distinct paths, in any order
Listings(n) ==
    IF n = 0 THEN {<<>>}
    ELSE Listings(n - 1)
         \cup {l \in {Append(l, f) : l \in Listings(n - 1), f \in Files} :
                  /\ Len(l) = n
                  /\ \A i \in 1..(n - 1) : l[i].path # l[n].path}

\* what datetime.utcnow() may return
Clock ==
    { [year |-> 2025, month |-> 3, day |-> 9, hour |-> 8, minute |-> 5, second |-> 0, microsecond |-> 0],
      [year |-> 2024, month |-> 12, day |-> 31, hour |-> 23, minute |-> 59, second |-> 58, microsecond |-> 120] }

\* what is left on disk of a file whose json.dump raised
PartialText == [t |-> "partial"]

Init ==
    /\ pc = "import_utils"
    /\ libs \in SUBSET {"pandas", "pdfplumber", "PyPDF2"}
    /\ PDFLIB = ""
    /\ pdfs = <<>>
    /\ outdir = {}
    /\ done = <<>>
    /\ ThemeIdle /\ DescIdle /\ TaskIdle /\ JsonIdle /\ CritIdle

\* parse_manuals line 11, from utils import: utils imports pandas, then pdfplumber
ImportUtils ==
    /\ pc = "import_utils"
    /\ pc' = IF {"pandas", "pdfplumber"} \subseteq libs THEN "import_pdflib" ELSE "fatal"
    /\ UNCHANGED <<mainVars, themeVars, descVars, taskVars, jsonVars, critVars>>

\* parse_manuals lines 20-30: try pdfplumber, otherwise PyPDF2
ImportPdfLib ==
    /\ pc = "import_pdflib"
    /\ IF "pdfplumber" \in libs THEN PDFLIB' = "pdfplumber" /\ pc' = "main"
       ELSE IF "PyPDF2" \in libs THEN PDFLIB' = "pypdf2" /\ pc' = "main"
       ELSE PDFLIB' = PDFLIB /\ pc' = "fatal"
    /\ UNCHANGED <<libs, pdfs, outdir, done, themeVars, descVars, taskVars, jsonVars, critVars>>

\* main up to the loop: the PDFs of the input directory
MainGlob ==
    /\ pc = "main"
    /\ pdfs' \in Listings(MaxPdfs)
    /\ pc' = IF pdfs' = <<>> THEN "returned" ELSE "loop"
    /\ UNCHANGED <<libs, PDFLIB, outdir, done, themeVars, descVars, taskVars, jsonVars, critVars>>

\* save_json(data, outfile): the file is opened for writing, then json.dump
\* writes the text or raises TypeError
Saved(pdf, data, written) ==
    /\ outdir' = {f \in outdir : f.name # outfile_of(pdf.path)}
                 \cup {[name |-> outfile_of(pdf.path),
                        text |-> IF Serializable(data) THEN written ELSE PartialText]}
    /\ root' = data
    /\ themes' = Get(Get(data, PyStr("versions")).v[1], PyStr("themes")).v
    /\ IF Serializable(data)
       THEN /\ done' = Append(done, [path |-> pdf.path, outfile |-> outfile_of(pdf.path)])
            /\ pc' = IF Len(done') = Len(pdfs) THEN "returned" ELSE "loop"
       ELSE pc' = "raised" /\ done' = done

\* data: what parse_manual returned or raised
Handled(pdf, data) ==
    IF data \in {IndexError, RuntimeError}
    THEN pc' = "raised" /\ UNCHANGED <<outdir, done, root, themes>>
    ELSE Saved(pdf, data, json_dumps(data))

\* one turn of the loop of main, for the next PDF
Process(pdf, now) ==
    /\ manual_meta' = meta_after_parse(cleaned_pages(extract_text_pages(PDFLIB, pdf.doc)),
                                       manual_meta_for(pdf.path))
    /\ Handled(pdf, parse_manual(PDFLIB, pdf.doc, manual_meta_for(pdf.path), now))

ProcessPdf ==
    /\ pc = "loop"
    /\ \E now \in Clock : Process(pdfs[Len(done) + 1], now)
    /\ UNCHANGED <<libs, PDFLIB, pdfs, themeVars, descVars, taskVars, critVars>>

Next == ImportUtils \/ ImportPdfLib \/ MainGlob \/ ProcessPdf

Spec == Init /\ [][Next]_vars

-----------------------------------------------------------------------------
\* the names of the files main has written are those of distinct files
DistinctOutfiles == \A i, j \in 1..Len(done) : i # j => done[i].outfile # done[j].outfile

\* C5: when main has returned, every PDF of the input directory has an
\* output file of its own: there are as many files in the output directory
\* as PDFs, and no two PDFs were written to the same file.
C5_OneFilePerPdf ==
    pc = "returned" => Cardinality(outdir) = Len(pdfs) /\ DistinctOutfiles

\* C6: parse_manual raises for no document: the loop of main never ends in
\* an exception.
C6_NeverRaises == pc # "raised"

\* C7: with pandas installed, pdfplumber missing and PyPDF2 installed, the
\* program does not fail at import time.
C7_FallsBackToPyPDF2 ==
    ({"pandas", "PyPDF2"} \subseteq libs /\ "pdfplumber" \notin libs) => pc # "fatal"

\* the file main wrote for the last PDF handled
LastFile == CHOOSE f \in outdir : f.name = done[Len(done)].outfile

RECURSIVE JsonValue(_)
\* every key is a str and every leaf a str, a bool, an int or None
JsonValue(v) ==
    CASE v.t \in {"str", "int", "bool", "NoneType"} -> TRUE
      [] v.t = "list" -> \A n \in 1..Len(v.v) : JsonValue(v.v[n])
      [] v.t = "dict" -> \A n \in 1..Len(v.v) : v.v[n][1].t = "str" /\ JsonValue(v.v[n][2])
      [] OTHER -> FALSE

\* C9: the structure parse_manual returns has only str keys and str, bool,
\* int or None leaves, json.dump accepts it, and json.loads of the text
\* written to the output file gives the structure back.
C9_RoundTrip ==
    root # <<>> =>
        /\ JsonValue(root)
        /\ Serializable(root)
        /\ json_loads(json_dumps(root)) = root
        /\ done # <<>> /\ json_loads(LastFile.text) = root

\* two files written, the last from a document with a quotation mark and
\* non-ASCII letters in its description and a date with microseconds
C9_Witness ==
    /\ pc = "returned"
    /\ Len(done) = 2
    /\ Contains(Get(root, PyStr("description")).v, "\"grønt\"")
    /\ Contains(LastFile.text, "\\\"grønt\\\"")
    /\ Contains(Get(Get(root, PyStr("versions")).v[1], PyStr("date")).v, ".000120Z")
    /\ Len(themes) > 0

-----------------------------------------------------------------------------
\* the PDF the last structure returned was parsed from
LastPdf == pdfs[Len(done)]

\* the page texts parse_manual worked on for that PDF
LastPages == cleaned_pages(extract_text_pages(PDFLIB, LastPdf.doc))

\* the text chunk parse_manual cut for a theme found on the given page
ChunkAfter(page) == Join("\n\n", Slice(LastPages, page + 1, page + 1 + 40))

\* C12: every theme of the structure parse_manual returns has an empty items
\* list, whatever criterion headings and task blocks the page texts hold;
\* the themes are those find_theme_pages detected, in its order, with
\* sortOrder 1..n.
C12_ThemesWithoutItems ==
    (root # <<>> /\ pc \in {"loop", "returned"}) =>
        /\ Len(themes) = Len(find_theme_pages(LastPages))
        /\ \A n \in 1..Len(themes) :
              /\ Get(themes[n], PyStr("items")) = PyList(<<>>)
              /\ Get(themes[n], PyStr("sortOrder")) = PyInt(n)
              /\ Get(themes[n], PyStr("title")) = PyStr(find_theme_pages(LastPages)[n].title)

\* a document with two themes whose chunk holds criterion headings and a
\* task block
C12_Witness ==
    /\ pc = "returned"
    /\ root # <<>>
    /\ Len(themes) = 2
    /\ Len(detect_criteria(ChunkAfter(find_theme_pages(LastPages)[1].page))) = 2
    /\ Search(task_pattern("Stedets kvalitet"), ChunkAfter(find_theme_pages(LastPages)[1].page))
    /\ Get(themes[2], PyStr("items")) = PyList(<<>>)

-----------------------------------------------------------------------------
(* SpecJson: build_json_structure applied to a manual_meta and a theme list *)

\* the most themes in the list
MaxThemes == 2

\* the keys a manual_meta may hold, with a value for each
MetaItems ==
    << <<PyStr("id"), PyStr("f7a3e8b2")>>,
       <<PyStr("name"), PyStr("BO-VEST Nybyg")>>,
       <<PyStr("shortName"), PyStr("Nybyg")>>,
       <<PyStr("group"), PyStr("almen")>>,
       <<PyStr("description"), PyStr("Manual for nybyggeri")>>,
       <<PyStr("url_base"), PyStr("file://manuals/pdf/Nybyg.pdf")>> >>

JsonInit ==
    /\ pc = "meta"
    /\ manual_meta = PyDict(<<>>)
    /\ themes = <<>>
    /\ root = <<>>
    /\ MainIdle /\ ThemeIdle /\ DescIdle /\ TaskIdle /\ CritIdle

\* the caller sets a key of manual_meta
JsonSetMeta ==
    /\ pc = "meta"
    /\ \E n \in 1..Len(MetaItems) :
          /\ \A m \in n..Len(MetaItems) : ~HasKeyOf(manual_meta, MetaItems[m][1])
          /\ manual_meta' = SetKey(manual_meta, MetaItems[n][1], MetaItems[n][2])
    /\ UNCHANGED <<pc, themes, root, mainVars, themeVars, descVars, taskVars, critVars>>

\* the caller appends a theme to the list
JsonAppendTheme ==
    /\ pc = "meta"
    /\ Len(themes) < MaxThemes
    /\ \E title \in {"Det Sociale", "Materialer"} :
          themes' = Append(themes, SetKey(build_theme(title), PyStr("sortOrder"), PyInt(Len(themes) + 1)))
    /\ UNCHANGED <<pc, manual_meta, root, mainVars, themeVars, descVars, taskVars, critVars>>

JsonCall ==
    /\ pc = "meta"
    /\ \E now \in Clock : root' = build_json_structure(manual_meta, themes, now)
    /\ pc' = "json_done"
    /\ UNCHANGED <<manual_meta, themes, mainVars, themeVars, descVars, taskVars, critVars>>

JsonNext == JsonSetMeta \/ JsonAppendTheme \/ JsonCall

SpecJson == JsonInit /\ [][JsonNext]_vars

\* the one entry of versions
Version == Get(root, PyStr("versions")).v[1]

\* C8: build_json_structure returns a dict with exactly the keys id, name,
\* shortName, group, description, versions; versions is a list of one dict
\* with exactly the keys version, date, themes; themes is the given list in
\* the given order; url_base and any other key of manual_meta are left out.
C8_ExactKeys ==
    pc = "json_done" =>
        /\ Keys(root) = <<PyStr("id"), PyStr("name"), PyStr("shortName"), PyStr("group"),
                          PyStr("description"), PyStr("versions")>>
        /\ Get(root, PyStr("versions")).t = "list"
        /\ Len(Get(root, PyStr("versions")).v) = 1
        /\ Keys(Version) = <<PyStr("version"), PyStr("date"), PyStr("themes")>>
        /\ Get(Version, PyStr("themes")) = PyList(themes)
        /\ ~HasKeyOf(root, PyStr("url_base"))

\* a manual_meta with url_base and a list of two different themes
C8_Witness ==
    /\ pc = "json_done"
    /\ HasKeyOf(manual_meta, PyStr("url_base"))
    /\ Len(themes) = 2
    /\ themes[1] # themes[2]

-----------------------------------------------------------------------------
(* SpecCriteria: extract_task_blocks, and with it detect_criteria, applied *)
(* to a text chunk of up to MaxChunkLines lines drawn from CritLines, for  *)
(* the theme CritTheme, without pages and with the page texts CritPages.   *)

\* the most lines in the text chunk
MaxChunkLines == 3

CritLines ==
    { "Indhold",
      "Det grønne: træer",
      "Det grønne: buske og hække",
      "  DET GRØNNE : planter  ",
      ":Det grønne",
      "Stedets kvalitet" }

CritTheme == "Indeklima, Energi og Miljø"

\* the page texts of a manual: build_criterion reads them from page 16 on
CritPages ==
    PyList([n \in 1..CriterionStartPage |->
               IF n = CriterionStartPage THEN "Det grønne:\n01\nTræer\nBeskrivelse" ELSE "Indhold"])

\* the manual's metadata, with a pdfplumber page for each page text
CritMeta ==
    PyDict(<< <<PyStr("url_base"), PyStr("file://nybyg.pdf")>>,
              <<PyStr("pages"), PyList([n \in 1..CriterionStartPage |-> Page(PyNone, "")])>> >>)

CritInit ==
    /\ pc = "chunk"
    /\ chunk \in CritLines \cup {""}
    /\ block_pages \in {PyNone, CritPages}
    /\ detected = <<>>
    /\ theme = <<>>
    /\ manual_meta = CritMeta
    /\ themes = <<>> /\ root = <<>>
    /\ MainIdle /\ ThemeIdle /\ DescIdle /\ TaskIdle

\* the caller's text chunk grows by one line
CritAppendLine ==
    /\ pc = "chunk"
    /\ Len(Split(chunk, "\n")) < MaxChunkLines
    /\ \E l \in CritLines : chunk' = chunk \o "\n" \o l
    /\ UNCHANGED <<pc, block_pages, detected, theme, mainVars, themeVars, descVars, taskVars, jsonVars>>

\* extract_task_blocks; detected: its local criteria
CritCall ==
    /\ pc = "chunk"
    /\ detected' = detect_criteria(chunk)
    /\ theme' = extract_task_blocks(chunk, CritTheme, manual_meta, 1, block_pages)
    /\ pc' = "crit_done"
    /\ UNCHANGED <<chunk, block_pages, mainVars, themeVars, descVars, taskVars, jsonVars>>

CritNext == CritAppendLine \/ CritCall

SpecCriteria == CritInit /\ [][CritNext]_vars

\* the lines of the chunk
ChunkLines == Split(chunk, "\n")

\* line l holds, in any case of letters, a known criterion keyword
IsHit(l) == \E k \in 1..Len(criteria_keywords) : Contains(Upper(l), criteria_keywords[k])

\* the part of the line, without surrounding white space, before its first ":"
BeforeColon(l) ==
    IF Find(Strip(l), ":") = 0 THEN Strip(l) ELSE SubSeq(Strip(l), 1, Find(Strip(l), ":") - 1)

\* the first line with a keyword whose part before the colon is c
FirstLineOf(c) ==
    CHOOSE i \in 1..Len(ChunkLines) :
        /\ IsHit(ChunkLines[i]) /\ BeforeColon(ChunkLines[i]) = c
        /\ \A j \in 1..(i - 1) : ~(IsHit(ChunkLines[j]) /\ BeforeColon(ChunkLines[j]) = c)

\* the criteria attached to the theme returned
ThemeCriteria == Get(theme, PyStr("items")).v

\* C11: detect_criteria returns a non-empty list without duplicates; with no
\* line holding a keyword it is the single entry "", and extract_task_blocks
\* returns the bare theme; otherwise its entries are the parts before the
\* first ":" of the lines holding a keyword, in order of first occurrence. No
\* criterion is attached to the theme for an entry "".
C11_DetectCriteria ==
    pc = "crit_done" =>
        /\ Len(detected) >= 1
        /\ \A n, m \in 1..Len(detected) : n # m => detected[n] # detected[m]
        /\ (\A i \in 1..Len(ChunkLines) : ~IsHit(ChunkLines[i]))
              => detected = <<"">> /\ theme = build_theme(CritTheme)
        /\ (\E i \in 1..Len(ChunkLines) : IsHit(ChunkLines[i]))
              => /\ \A i \in 1..Len(ChunkLines) :
                       IsHit(ChunkLines[i]) => \E n \in 1..Len(detected) : detected[n] = BeforeColon(ChunkLines[i])
                 /\ \A n \in 1..Len(detected) :
                       \E i \in 1..Len(ChunkLines) : IsHit(ChunkLines[i]) /\ BeforeColon(ChunkLines[i]) = detected[n]
                 /\ \A n, m \in 1..Len(detected) : n < m => FirstLineOf(detected[n]) < FirstLineOf(detected[m])
        /\ \A n \in 1..Len(ThemeCriteria) : Get(ThemeCriteria[n], PyStr("title")) # PyStr("")

\* the fallback: a chunk of several lines, none with a keyword, with pages given
C11_Witness ==
    /\ pc = "crit_done"
    /\ Len(ChunkLines) > 1
    /\ \A i \in 1..Len(ChunkLines) : ~IsHit(ChunkLines[i])
    /\ block_pages # PyNone
    /\ detected = <<"">>
    /\ ThemeCriteria = <<>>

=============================================================================
